---- MODULE Spec2Model ----
(***************************************************************************)
(* Model of the coding-standards example repository: the Makefile that     *)
(* builds the five example programs, and the execution of each program's   *)
(* main, statement by statement.                                           *)
(***************************************************************************)
EXTENDS Naturals, Sequences, FiniteSets

VARIABLES
    disk,      \* the build products present on disk
    mkGoal,    \* the goal of the make run in progress, "none" when make is idle
    mkTodo,    \* the prerequisites make has still to consider, in order
    mkFailed,  \* the sources whose recipe failed in this make run
    mkExit,    \* "none" (idle), "running", or make's exit status "0" / "2"
    lastBuild, \* the exit status of the most recent run of all, c or cpp, "none" before the first
    removed,   \* the files the rm of the clean run in progress has deleted
    proc,      \* the program being executed, "none" when there is none
    phase,     \* "none", "static_init", "main", "returned", "terminated", "crashed", "killed"
    pc,        \* index of the next statement of main
    called,    \* the functions called so far by the running program
    fpc,       \* the position in the body of the function being executed, "none" in main
    i,         \* the local i of cert_exp30_c and of misra_rule_15_6
    arr,       \* the local arr of cert_exp30_c
    ptr,       \* the local p of cert_mem30_c, the local f of cert_err33_c
    heap,      \* the state of the object ptr points to
    log,       \* what the function being executed has done, in order
    count,     \* how many times the loop body of misra_rule_15_6 has been executed
    sigint_handler, \* the disposition of SIGINT
    resethand, \* whether the disposition is reset when the handler is entered
    sigints,   \* the SIGINTs delivered to the process
    handler_runs    \* the executions of bad_signal_handler

vars == <<disk, mkGoal, mkTodo, mkFailed, mkExit, lastBuild, removed, proc, phase, pc, called,
          fpc, i, arr, ptr, heap, log, count, sigint_handler, resethand, sigints, handler_runs>>
mkVars == <<disk, mkGoal, mkTodo, mkFailed, mkExit, lastBuild, removed>>
localVars == <<i, arr, ptr, heap, log, count>>
sigVars == <<sigint_handler, resethand, sigints, handler_runs>>
procVars == <<proc, phase, pc, called, fpc, localVars, sigVars>>

(***************************************************************************)
(* The Makefile                                                            *)
(***************************************************************************)

\* C_SRC = $(wildcard src/c/*.c)
C_SRC == {"src/c/misra_violations.c", "src/c/cert_c_violations.c"}

\* CPP_SRC = $(wildcard src/cpp/*.cpp)
CPP_SRC == {"src/cpp/autosar_violations.cpp", "src/cpp/cert_cpp_violations.cpp",
            "src/cpp/misra_cpp_violations.cpp"}

Sources == C_SRC \cup CPP_SRC

\* $(C_SRC:.c=) and $(CPP_SRC:.cpp=): the source name without its suffix
Bin(f) ==
    CASE f = "src/c/misra_violations.c"          -> "src/c/misra_violations"
      [] f = "src/c/cert_c_violations.c"         -> "src/c/cert_c_violations"
      [] f = "src/cpp/autosar_violations.cpp"    -> "src/cpp/autosar_violations"
      [] f = "src/cpp/cert_cpp_violations.cpp"   -> "src/cpp/cert_cpp_violations"
      [] f = "src/cpp/misra_cpp_violations.cpp"  -> "src/cpp/misra_cpp_violations"

\* $(C_SRC:.c=.o) and $(CPP_SRC:.cpp=.o)
Obj(f) ==
    CASE f = "src/c/misra_violations.c"          -> "src/c/misra_violations.o"
      [] f = "src/c/cert_c_violations.c"         -> "src/c/cert_c_violations.o"
      [] f = "src/cpp/autosar_violations.cpp"    -> "src/cpp/autosar_violations.o"
      [] f = "src/cpp/cert_cpp_violations.cpp"   -> "src/cpp/cert_cpp_violations.o"
      [] f = "src/cpp/misra_cpp_violations.cpp"  -> "src/cpp/misra_cpp_violations.o"

C_BIN == {Bin(f) : f \in C_SRC}
CPP_BIN == {Bin(f) : f \in CPP_SRC}
C_OBJ == {Obj(f) : f \in C_SRC}
CPP_OBJ == {Obj(f) : f \in CPP_SRC}

BuildGoals == {"all", "c", "cpp"}

\* the sources whose binaries a goal depends on: all: c cpp, c: $(C_BIN), cpp: $(CPP_BIN)
GoalFiles(goal) ==
    CASE goal = "all" -> C_SRC \cup CPP_SRC
      [] goal = "c"   -> C_SRC
      [] goal = "cpp" -> CPP_SRC
      [] OTHER        -> {}

\* the orders in which the elements of S can be listed
Orders(S) == {s \in [1..Cardinality(S) -> S] : \A m, n \in 1..Cardinality(S) : s[m] = s[n] => m = n}

\* The order in which make considers the prerequisites of a goal. $(wildcard)
\* lists the files of a directory in an order the Makefile does not fix; "all"
\* considers c before cpp.
GoalOrders(goal) ==
    CASE goal = "all" -> {a \o b : a \in Orders(C_SRC), b \in Orders(CPP_SRC)}
      [] goal = "c"   -> Orders(C_SRC)
      [] goal = "cpp" -> Orders(CPP_SRC)
      [] OTHER        -> {<<>>}

\* make all | make c | make cpp
MakeStart(goal, order) ==
    /\ mkGoal = "none"
    /\ goal \in BuildGoals
    /\ order \in GoalOrders(goal)
    /\ mkGoal' = goal
    /\ mkTodo' = order
    /\ mkFailed' = {}
    /\ mkExit' = "running"
    /\ UNCHANGED <<disk, lastBuild, removed, procVars>>

\* the target exists (its source never changes here): nothing to be done for it
MakeUpToDate ==
    /\ mkExit = "running"
    /\ mkGoal \in BuildGoals
    /\ mkTodo # <<>>
    /\ Bin(Head(mkTodo)) \in disk
    /\ mkTodo' = Tail(mkTodo)
    /\ UNCHANGED <<disk, mkGoal, mkFailed, mkExit, lastBuild, removed, procVars>>

\* $(CC) $(CFLAGS) -o $@ $<  /  $(CXX) $(CXXFLAGS) -o $@ $<  exits 0
CompileOk ==
    /\ mkExit = "running"
    /\ mkGoal \in BuildGoals
    /\ mkTodo # <<>>
    /\ Bin(Head(mkTodo)) \notin disk
    /\ disk' = disk \cup {Bin(Head(mkTodo))}
    /\ mkTodo' = Tail(mkTodo)
    /\ UNCHANGED <<mkGoal, mkFailed, mkExit, lastBuild, removed, procVars>>

\* The recipe exits non-zero: the compiler writes no output, and make, run
\* without -k, gives up at once with status 2; the prerequisites left in
\* mkTodo are never considered.
CompileFail ==
    /\ mkExit = "running"
    /\ mkGoal \in BuildGoals
    /\ mkTodo # <<>>
    /\ Bin(Head(mkTodo)) \notin disk
    /\ mkFailed' = mkFailed \cup {Head(mkTodo)}
    /\ mkExit' = "2"
    /\ lastBuild' = "2"
    /\ UNCHANGED <<disk, mkGoal, mkTodo, removed, procVars>>

\* every prerequisite of the goal is made: make exits 0
MakeDone ==
    /\ mkExit = "running"
    /\ mkGoal \in BuildGoals
    /\ mkTodo = <<>>
    /\ mkExit' = "0"
    /\ lastBuild' = "0"
    /\ UNCHANGED <<disk, mkGoal, mkTodo, mkFailed, removed, procVars>>

\* a clean whose rm leaves out $(CPP_BIN)
MakeClean_withoutCppBin ==
    /\ mkGoal = "none"
    /\ mkGoal' = "clean"
    /\ mkTodo' = <<>>
    /\ mkFailed' = {}
    /\ disk' = disk \ (C_BIN \cup C_OBJ \cup CPP_OBJ)
    /\ removed' = disk \cap (C_BIN \cup C_OBJ \cup CPP_OBJ)
    /\ mkExit' = "0"
    /\ UNCHANGED <<lastBuild, procVars>>

\* make clean: rm -f $(C_BIN) $(CPP_BIN) $(C_OBJ) $(CPP_OBJ)
MakeClean ==
    /\ mkGoal = "none"
    /\ mkGoal' = "clean"
    /\ mkTodo' = <<>>
    /\ mkFailed' = {}
    /\ disk' = disk \ (C_BIN \cup CPP_BIN \cup C_OBJ \cup CPP_OBJ)
    /\ removed' = disk \cap (C_BIN \cup CPP_BIN \cup C_OBJ \cup CPP_OBJ)
    /\ mkExit' = "0"
    /\ UNCHANGED <<lastBuild, procVars>>

\* the make process is gone; the next make run can start
MakeExit ==
    /\ mkExit \in {"0", "2"}
    /\ mkGoal' = "none"
    /\ mkTodo' = <<>>
    /\ mkFailed' = {}
    /\ mkExit' = "none"
    /\ removed' = {}
    /\ UNCHANGED <<disk, lastBuild, procVars>>

(***************************************************************************)
(* The five programs                                                       *)
(***************************************************************************)

\* misra_violations.c: the functions named after the rule they violate
misra_violations_functions ==
    {"misra_rule_2_2", "misra_rule_8_4_func", "misra_rule_10_1", "misra_rule_10_3",
     "misra_rule_11_3", "misra_rule_12_1", "misra_rule_14_4", "misra_rule_15_6",
     "misra_rule_17_7", "misra_rule_21_3", "misra_rule_21_6", "misra_dir_4_6"}

\* misra_violations.c: the statements of main before return 0, in order
misra_violations_main ==
    <<"misra_rule_2_2", "misra_rule_8_4_func", "misra_rule_10_1", "misra_rule_10_3",
      "misra_rule_11_3", "misra_rule_12_1", "misra_rule_14_4", "misra_rule_15_6",
      "misra_rule_17_7", "misra_rule_21_3", "misra_rule_21_6", "misra_dir_4_6">>

\* cert_c_violations.c: the functions named after the rule they violate
cert_c_violations_functions ==
    {"cert_exp30_c", "cert_exp33_c", "cert_arr30_c", "cert_mem30_c", "cert_mem35_c",
     "cert_str31_c", "cert_err33_c", "cert_sig30_c", "cert_msc32_c", "cert_int31_c",
     "cert_dcl30_c"}

\* cert_c_violations.c: the statements of main before return 0, in order
cert_c_violations_main ==
    <<"cert_exp30_c", "cert_exp33_c", "cert_arr30_c", "cert_mem30_c", "cert_mem35_c",
      "cert_str31_c", "cert_err33_c", "cert_sig30_c", "cert_msc32_c", "cert_int31_c",
      "cert_dcl30_c">>

\* cert_c_violations.c: the functions whose body has undefined behaviour
\* (unsequenced modification, uninitialized read, out-of-bounds access,
\* use after free, heap and stack overflow, fclose of a null pointer)
cert_c_violations_ub ==
    {"cert_exp30_c", "cert_exp33_c", "cert_arr30_c", "cert_mem30_c", "cert_mem35_c",
     "cert_str31_c", "cert_err33_c"}

\* cert_cpp_violations.cpp: the functions named after the rule they violate
cert_cpp_violations_functions ==
    {"cert_err50_cpp", "cert_dcl50_cpp", "cert_oop57_cpp", "cert_exp55_cpp",
     "cert_ctr50_cpp", "cert_mem52_cpp", "cert_err61_cpp", "cert_msc50_cpp",
     "cert_oop51_cpp"}

\* cert_cpp_violations.cpp: the statements of main before return 0, in order
\* (the call of cert_err50_cpp is commented out)
cert_cpp_violations_main ==
    <<"cert_dcl50_cpp", "cert_oop57_cpp", "cert_exp55_cpp", "cert_ctr50_cpp",
      "cert_mem52_cpp", "cert_err61_cpp", "cert_msc50_cpp", "cert_oop51_cpp">>

\* cert_cpp_violations.cpp: the functions whose body has undefined behaviour
\* (write to a const object, out-of-range subscript, null dereference)
cert_cpp_violations_ub == {"cert_exp55_cpp", "cert_ctr50_cpp", "cert_mem52_cpp"}

\* autosar_violations.cpp: the functions named after the rule they violate
autosar_violations_functions ==
    {"autosar_a0_1_1", "autosar_a0_1_2", "autosar_a2_10_1", "autosar_a5_1_1",
     "autosar_a7_1_5", "autosar_a15_1_2", "autosar_a18_1_1", "autosar_a18_5_1",
     "autosar_m5_0_3", "autosar_a5_2_2", "autosar_a3_9_1", "autosar_m6_4_1",
     "autosar_a8_4_7"}

\* autosar_violations.cpp: the statements of main before return 0, in order
autosar_violations_main ==
    <<"autosar_a0_1_1", "autosar_a0_1_2", "autosar_a2_10_1", "autosar_a5_1_1",
      "autosar_a7_1_5", "autosar_a11_0_2_struct s", "s.visible = 1", "set_secret",
      "autosar_a18_1_1", "autosar_a18_5_1", "autosar_m5_0_3", "autosar_a5_2_2",
      "autosar_a3_9_1", "autosar_m6_4_1", "std::vector<int> v", "autosar_a8_4_7">>

\* autosar_violations.cpp: the statements of main that call no function
Declarations == {"autosar_a11_0_2_struct s", "s.visible = 1", "std::vector<int> v"}

\* misra_cpp_violations.cpp: the functions named after the rule they violate
misra_cpp_violations_functions ==
    {"misra_cpp_0_1_1", "misra_cpp_2_10_2", "misra_cpp_5_0_3", "misra_cpp_5_2_4",
     "misra_cpp_6_4_2", "misra_cpp_6_6_5", "misra_cpp_15_3_5", "misra_cpp_18_0_1",
     "misra_cpp_18_4_1", "misra_cpp_27_0_1"}

\* misra_cpp_violations.cpp: the statements of main before return 0, in order
misra_cpp_violations_main ==
    <<"misra_cpp_0_1_1", "misra_cpp_2_10_2", "misra_cpp_5_0_3", "misra_cpp_5_2_4",
      "misra_cpp_6_4_2", "misra_cpp_6_6_5", "misra_cpp_15_3_5", "misra_cpp_18_0_1",
      "misra_cpp_18_4_1", "misra_cpp_27_0_1">>

\* the rule-violation functions defined in the file f
Defined(f) ==
    CASE f = "src/c/misra_violations.c"         -> misra_violations_functions
      [] f = "src/c/cert_c_violations.c"        -> cert_c_violations_functions
      [] f = "src/cpp/cert_cpp_violations.cpp"  -> cert_cpp_violations_functions
      [] f = "src/cpp/autosar_violations.cpp"   -> autosar_violations_functions
      [] f = "src/cpp/misra_cpp_violations.cpp" -> misra_cpp_violations_functions

\* the main of the program built from f
MainBody(f) ==
    CASE f = "src/c/misra_violations.c"         -> misra_violations_main
      [] f = "src/c/cert_c_violations.c"        -> cert_c_violations_main
      [] f = "src/cpp/cert_cpp_violations.cpp"  -> cert_cpp_violations_main
      [] f = "src/cpp/autosar_violations.cpp"   -> autosar_violations_main
      [] f = "src/cpp/misra_cpp_violations.cpp" -> misra_cpp_violations_main

\* A call of one of these may return, or the process may be killed in it.
HasUB == cert_c_violations_ub \cup cert_cpp_violations_ub

\* no initializer throws
ThrowsInStaticInit_none == {}

\* The files with a namespace-scope variable whose initializer throws:
\* std::string global_str = []() -> std::string { throw std::runtime_error(...); }();
ThrowsInStaticInit == {"src/cpp/cert_cpp_violations.cpp"}

\* The functions whose body is executed statement by statement.
Stepwise == {"cert_exp30_c", "cert_mem30_c", "cert_err33_c", "cert_sig30_c", "misra_rule_15_6"}

\* the first statement of the body of a function of Stepwise
Entry(fn) ==
    CASE fn = "cert_exp30_c"    -> "exp30_decl"
      [] fn = "cert_mem30_c"    -> "mem30_malloc"
      [] fn = "cert_err33_c"    -> "err33_fopen"
      [] fn = "cert_sig30_c"    -> "sig30_signal"
      [] fn = "misra_rule_15_6" -> "r15_6_init"

\* the positions at which a function returns to main
Returns == {"exp30_ret", "mem30_ret", "err33_ret", "sig30_ret", "r15_6_ret"}

\* an entry of log: the operation, with the values of ptr, heap and i it found
Event(op) == [op |-> op, ptr |-> ptr, heap |-> heap, i |-> i]

\* the binary of f is run
Exec(f) ==
    /\ proc = "none"
    /\ f \in Sources
    /\ Bin(f) \in disk
    /\ proc' = f
    /\ phase' = "static_init"
    /\ pc' = 0
    /\ called' = {}
    /\ UNCHANGED <<fpc, localVars, sigVars, mkVars>>

\* Initialization of the variables of static storage duration, before main.
\* An exception leaving an initializer is caught by nothing: std::terminate.
StaticInit ==
    /\ phase = "static_init"
    /\ IF proc \in ThrowsInStaticInit
          THEN phase' = "terminated" /\ pc' = pc
          ELSE phase' = "main" /\ pc' = 1
    /\ UNCHANGED <<proc, called, fpc, localVars, sigVars, mkVars>>

\* main executes its next statement, and the function it calls returns
Statement ==
    /\ phase = "main"
    /\ fpc = "none"
    /\ pc <= Len(MainBody(proc))
    /\ MainBody(proc)[pc] \notin Stepwise
    /\ called' = IF MainBody(proc)[pc] \in Declarations
                    THEN called
                    ELSE called \cup {MainBody(proc)[pc]}
    /\ pc' = pc + 1
    /\ UNCHANGED <<proc, phase, fpc, localVars, sigVars, mkVars>>

\* main calls a function with undefined behaviour, and the process dies in it
Crash ==
    /\ phase = "main"
    /\ fpc = "none"
    /\ pc <= Len(MainBody(proc))
    /\ MainBody(proc)[pc] \in HasUB \ Stepwise
    /\ called' = called \cup {MainBody(proc)[pc]}
    /\ phase' = "crashed"
    /\ UNCHANGED <<proc, pc, fpc, localVars, sigVars, mkVars>>

\* main calls a function whose body is executed statement by statement
Call ==
    /\ phase = "main"
    /\ fpc = "none"
    /\ pc <= Len(MainBody(proc))
    /\ MainBody(proc)[pc] \in Stepwise
    /\ called' = called \cup {MainBody(proc)[pc]}
    /\ fpc' = Entry(MainBody(proc)[pc])
    /\ UNCHANGED <<proc, phase, pc, localVars, sigVars, mkVars>>

\* the function returns to main; its locals are gone
FunctionReturn ==
    /\ phase = "main"
    /\ fpc \in Returns
    /\ fpc' = "none"
    /\ pc' = pc + 1
    /\ i' = 0
    /\ arr' = <<>>
    /\ ptr' = "none"
    /\ heap' = "none"
    /\ log' = <<>>
    /\ count' = 0
    /\ UNCHANGED <<proc, phase, called, sigVars, mkVars>>

(***************************************************************************)
(* misra_rule_15_6:  for (i = 0; i < 10; i++) i++;                         *)
(***************************************************************************)

\* the bound of the loop test
LoopBound == 10

\* a loop body that leaves i alone
LoopBody_noIncrement(n) == n

\* the statement of the loop body: i++
LoopBody(n) == n + 1

\* i = 0
misra_rule_15_6_init ==
    /\ phase = "main"
    /\ fpc = "r15_6_init"
    /\ i' = 0
    /\ fpc' = "r15_6_test"
    /\ UNCHANGED <<proc, phase, pc, called, arr, ptr, heap, log, count, sigVars, mkVars>>

\* i < 10
misra_rule_15_6_test ==
    /\ phase = "main"
    /\ fpc = "r15_6_test"
    /\ fpc' = IF i < LoopBound THEN "r15_6_body" ELSE "r15_6_ret"
    /\ UNCHANGED <<proc, phase, pc, called, localVars, sigVars, mkVars>>

\* the loop body
misra_rule_15_6_body ==
    /\ phase = "main"
    /\ fpc = "r15_6_body"
    /\ i' = LoopBody(i)
    /\ count' = count + 1
    /\ fpc' = "r15_6_incr"
    /\ UNCHANGED <<proc, phase, pc, called, arr, ptr, heap, log, sigVars, mkVars>>

\* the i++ of the for-header
misra_rule_15_6_incr ==
    /\ phase = "main"
    /\ fpc = "r15_6_incr"
    /\ i' = i + 1
    /\ fpc' = "r15_6_test"
    /\ UNCHANGED <<proc, phase, pc, called, arr, ptr, heap, log, count, sigVars, mkVars>>

(***************************************************************************)
(* cert_mem30_c                                                            *)
(***************************************************************************)

\* int *p = (int *)malloc(sizeof(int));  malloc gives a block or NULL
cert_mem30_c_malloc ==
    /\ phase = "main"
    /\ fpc = "mem30_malloc"
    /\ \E r \in {"NULL", "block"} :
          /\ ptr' = r
          /\ heap' = IF r = "block" THEN "allocated" ELSE heap
    /\ fpc' = "mem30_check"
    /\ UNCHANGED <<proc, phase, pc, called, i, arr, log, count, sigVars, mkVars>>

\* a check that lets NULL through
Mem30AfterCheck_noReturn(p) == "mem30_write"

\* the position after  if (p == NULL) return;
Mem30AfterCheck(p) == IF p = "NULL" THEN "mem30_ret" ELSE "mem30_write"

\* if (p == NULL) return;
cert_mem30_c_check ==
    /\ phase = "main"
    /\ fpc = "mem30_check"
    /\ fpc' = Mem30AfterCheck(ptr)
    /\ UNCHANGED <<proc, phase, pc, called, localVars, sigVars, mkVars>>

\* *p = 42;
cert_mem30_c_write ==
    /\ phase = "main"
    /\ fpc = "mem30_write"
    /\ log' = Append(log, Event("write"))
    /\ fpc' = "mem30_free"
    /\ UNCHANGED <<proc, phase, pc, called, i, arr, ptr, heap, count, sigVars, mkVars>>

\* free(p);
cert_mem30_c_free ==
    /\ phase = "main"
    /\ fpc = "mem30_free"
    /\ log' = Append(log, Event("free"))
    /\ heap' = "freed"
    /\ fpc' = "mem30_read"
    /\ UNCHANGED <<proc, phase, pc, called, i, arr, ptr, count, sigVars, mkVars>>

\* int val = *p;  the block is freed: the read gives some value, or the
\* process is killed
cert_mem30_c_read ==
    /\ phase = "main"
    /\ fpc = "mem30_read"
    /\ log' = Append(log, Event("read"))
    /\ \/ fpc' = "mem30_ret" /\ phase' = phase
       \/ fpc' = fpc /\ phase' = "crashed"
    /\ UNCHANGED <<proc, pc, called, i, arr, ptr, heap, count, sigVars, mkVars>>

(***************************************************************************)
(* cert_exp30_c                                                            *)
(***************************************************************************)

\* The orders in which the operands of  arr[i] = i++  can be evaluated: the
\* subscript reads i before the increment, or after it.
EvalOrders == {"subscript_first", "increment_first"}

\* arr[i] = i++: the values of i and arr after it, and the element written.
\* arr[k] of the C array is a[k + 1] here.
Exp30Assign_preIncrement(n, a, order) ==
    LET idx == IF order = "subscript_first" THEN n ELSE n + 1
    IN  [i |-> n + 1, arr |-> [a EXCEPT ![idx + 1] = n + 1], idx |-> idx]

\* the value of i++ is the value i had; the increment is a side effect
Exp30Assign(n, a, order) ==
    LET value == n
        idx == IF order = "subscript_first" THEN n ELSE n + 1
    IN  [i |-> n + 1, arr |-> [a EXCEPT ![idx + 1] = value], idx |-> idx]

\* int i = 0;  int arr[5] = {0};
cert_exp30_c_decl ==
    /\ phase = "main"
    /\ fpc = "exp30_decl"
    /\ i' = 0
    /\ arr' = <<0, 0, 0, 0, 0>>
    /\ fpc' = "exp30_assign"
    /\ UNCHANGED <<proc, phase, pc, called, ptr, heap, log, count, sigVars, mkVars>>

\* arr[i] = i++;  the order of evaluation is the compiler's choice
cert_exp30_c_assign ==
    /\ phase = "main"
    /\ fpc = "exp30_assign"
    /\ \E order \in EvalOrders :
          /\ i' = Exp30Assign(i, arr, order).i
          /\ arr' = Exp30Assign(i, arr, order).arr
          /\ log' = <<[op |-> order, ptr |-> ptr, heap |-> heap,
                       i |-> Exp30Assign(i, arr, order).idx]>>
    /\ fpc' = "exp30_ret"
    /\ UNCHANGED <<proc, phase, pc, called, ptr, heap, count, sigVars, mkVars>>

(***************************************************************************)
(* cert_err33_c                                                            *)
(***************************************************************************)

\* FILE *f = fopen("nonexistent.txt", "r");  the file is there or it is not
cert_err33_c_fopen ==
    /\ phase = "main"
    /\ fpc = "err33_fopen"
    /\ \E r \in {"NULL", "FILE"} :
          /\ ptr' = r
          /\ heap' = IF r = "FILE" THEN "open" ELSE heap
    /\ fpc' = "err33_fclose"
    /\ UNCHANGED <<proc, phase, pc, called, i, arr, log, count, sigVars, mkVars>>

\* a function that checks the result of fopen
Err33Closes_checked(p) == p # "NULL"

\* whether the function calls fclose on the result p of fopen
Err33Closes(p) == TRUE

\* fclose(f);  with f = NULL the call returns, or the process is killed in it
cert_err33_c_fclose ==
    /\ phase = "main"
    /\ fpc = "err33_fclose"
    /\ IF Err33Closes(ptr)
          THEN /\ log' = Append(log, Event("fclose"))
               /\ heap' = IF ptr = "FILE" THEN "closed" ELSE heap
               /\ \/ fpc' = "err33_ret" /\ phase' = phase
                  \/ ptr = "NULL" /\ fpc' = fpc /\ phase' = "crashed"
          ELSE /\ fpc' = "err33_ret"
               /\ UNCHANGED <<log, heap, phase>>
    /\ UNCHANGED <<proc, pc, called, i, arr, ptr, count, sigVars, mkVars>>

(***************************************************************************)
(* cert_sig30_c, bad_signal_handler and SIGINT                             *)
(***************************************************************************)

\* how many SIGINTs are sent to one process
MaxSigints == 2

\* a cert_sig30_c that installs nothing
cert_sig30_c_signal_noHandler ==
    /\ phase = "main"
    /\ fpc = "sig30_signal"
    /\ \E r \in {"yes", "no"} : resethand' = r
    /\ fpc' = "sig30_ret"
    /\ UNCHANGED <<proc, phase, pc, called, localVars, sigint_handler, sigints, handler_runs, mkVars>>

\* signal(SIGINT, bad_signal_handler);  Whether the disposition goes back to
\* SIG_DFL when the handler is entered is the implementation's choice.
cert_sig30_c_signal ==
    /\ phase = "main"
    /\ fpc = "sig30_signal"
    /\ sigint_handler' = "bad_signal_handler"
    /\ \E r \in {"yes", "no"} : resethand' = r
    /\ fpc' = "sig30_ret"
    /\ UNCHANGED <<proc, phase, pc, called, localVars, sigints, handler_runs, mkVars>>

\* A SIGINT is delivered to the running process. With the default
\* disposition the process is terminated; otherwise bad_signal_handler runs
\* (its printf) and the interrupted code resumes.
SigInt ==
    /\ phase \in {"static_init", "main", "returned"}
    /\ sigints < MaxSigints
    /\ sigints' = sigints + 1
    /\ IF sigint_handler = "SIG_DFL"
          THEN /\ phase' = "killed"
               /\ UNCHANGED <<sigint_handler, handler_runs>>
          ELSE /\ handler_runs' = handler_runs + 1
               /\ sigint_handler' = IF resethand = "yes" THEN "SIG_DFL" ELSE sigint_handler
               /\ phase' = phase
    /\ UNCHANGED <<proc, pc, called, fpc, localVars, resethand, mkVars>>

\* return 0;
Return ==
    /\ phase = "main"
    /\ fpc = "none"
    /\ pc = Len(MainBody(proc)) + 1
    /\ phase' = "returned"
    /\ UNCHANGED <<proc, pc, called, fpc, localVars, sigVars, mkVars>>

\* the process is gone; another program can be run
ProcessExit ==
    /\ phase \in {"returned", "terminated", "crashed", "killed"}
    /\ proc' = "none"
    /\ phase' = "none"
    /\ pc' = 0
    /\ called' = {}
    /\ fpc' = "none"
    /\ i' = 0
    /\ arr' = <<>>
    /\ ptr' = "none"
    /\ heap' = "none"
    /\ log' = <<>>
    /\ count' = 0
    /\ sigint_handler' = "SIG_DFL"
    /\ resethand' = "none"
    /\ sigints' = 0
    /\ handler_runs' = 0
    /\ UNCHANGED mkVars

(***************************************************************************)
(* Specification                                                           *)
(***************************************************************************)

\* a fresh checkout: no build product on disk, nothing running
Init ==
    /\ disk = {}
    /\ mkGoal = "none"
    /\ mkTodo = <<>>
    /\ mkFailed = {}
    /\ mkExit = "none"
    /\ lastBuild = "none"
    /\ removed = {}
    /\ proc = "none"
    /\ phase = "none"
    /\ pc = 0
    /\ called = {}
    /\ fpc = "none"
    /\ i = 0
    /\ arr = <<>>
    /\ ptr = "none"
    /\ heap = "none"
    /\ log = <<>>
    /\ count = 0
    /\ sigint_handler = "SIG_DFL"
    /\ resethand = "none"
    /\ sigints = 0
    /\ handler_runs = 0

Next ==
    \/ \E goal \in BuildGoals : \E order \in GoalOrders(goal) : MakeStart(goal, order)
    \/ MakeUpToDate
    \/ CompileOk
    \/ CompileFail
    \/ MakeDone
    \/ MakeClean
    \/ MakeExit
    \/ \E f \in Sources : Exec(f)
    \/ StaticInit
    \/ Statement
    \/ Crash
    \/ Call
    \/ FunctionReturn
    \/ misra_rule_15_6_init
    \/ misra_rule_15_6_test
    \/ misra_rule_15_6_body
    \/ misra_rule_15_6_incr
    \/ cert_mem30_c_malloc
    \/ cert_mem30_c_check
    \/ cert_mem30_c_write
    \/ cert_mem30_c_free
    \/ cert_mem30_c_read
    \/ cert_exp30_c_decl
    \/ cert_exp30_c_assign
    \/ cert_err33_c_fopen
    \/ cert_err33_c_fclose
    \/ cert_sig30_c_signal
    \/ SigInt
    \/ Return
    \/ ProcessExit

Spec == Init /\ [][Next]_vars

TypeOK ==
    /\ disk \subseteq (C_BIN \cup CPP_BIN \cup C_OBJ \cup CPP_OBJ)
    /\ mkGoal \in BuildGoals \cup {"none", "clean"}
    /\ mkFailed \subseteq Sources
    /\ mkExit \in {"none", "running", "0", "2"}
    /\ lastBuild \in {"none", "0", "2"}
    /\ removed \subseteq C_BIN \cup CPP_BIN
    /\ proc \in Sources \cup {"none"}
    /\ phase \in {"none", "static_init", "main", "returned", "terminated", "crashed", "killed"}
    /\ pc \in 0..17
    /\ fpc \in Returns \cup {"none", "exp30_decl", "exp30_assign", "mem30_malloc", "mem30_check",
                           "mem30_write", "mem30_free", "mem30_read", "err33_fopen",
                           "err33_fclose", "sig30_signal", "r15_6_init", "r15_6_test",
                           "r15_6_body", "r15_6_incr"}
    /\ i \in 0..LoopBound
    /\ ptr \in {"none", "NULL", "block", "FILE"}
    /\ heap \in {"none", "allocated", "freed", "open", "closed"}
    /\ count \in 0..LoopBound
    /\ sigint_handler \in {"SIG_DFL", "bad_signal_handler"}
    /\ resethand \in {"none", "yes", "no"}
    /\ sigints \in 0..MaxSigints
    /\ handler_runs \in 0..MaxSigints

(***************************************************************************)
(* Claims                                                                  *)
(***************************************************************************)

\* C1: an execution of main that reaches its return statement has called
\* every rule-violation function defined in the file of that main.
C1_MainCallsEveryViolation ==
    phase = "returned" => Defined(proc) \subseteq called

\* C6: when a make run for all, c or cpp has ended, the binary of every
\* source of the goal other than the ones whose compilation failed is on
\* disk: one file's failure does not keep the other files from being built.
C6_OtherFilesStillBuilt ==
    (mkGoal \in BuildGoals /\ mkExit \in {"0", "2"}) =>
        \A f \in GoalFiles(mkGoal) \ mkFailed : Bin(f) \in disk

\* C12 (as stated): at the end of every make run, whether every file
\* compiled or a compilation failed, none of the files the build creates
\* remains on disk.
C12_NothingLeftAtRunEnd ==
    mkExit \in {"0", "2"} => disk \cap (C_BIN \cup CPP_BIN \cup C_OBJ \cup CPP_OBJ) = {}

\* C12 (amended): the build goals clean nothing up, the binaries of a
\* successful run of all, c or cpp are all on disk when it ends; it is the
\* clean goal that removes them: when clean has run, after a successful or
\* a failed build alike, no binary and no object file is left.
C12_CleanRemovesBuildProducts ==
    /\ (mkGoal = "clean" /\ mkExit = "0") =>
            disk \cap (C_BIN \cup CPP_BIN \cup C_OBJ \cup CPP_OBJ) = {}
    /\ (mkGoal \in BuildGoals /\ mkExit = "0") =>
            \A f \in GoalFiles(mkGoal) : Bin(f) \in disk

\* C12 witness: clean has run after a failed build and has deleted binaries
\* of C and of C++ sources that the failed build had left.
C12_Witness_CleanAfterFailedBuild ==
    /\ mkGoal = "clean"
    /\ mkExit = "0"
    /\ lastBuild = "2"
    /\ removed \cap C_BIN # {}
    /\ removed \cap CPP_BIN # {}
    /\ disk = {}

\* C14: the program built from cert_cpp_violations.cpp never gets to main:
\* the initializer of global_str throws during static initialization, the
\* process terminates, and no statement of main is executed.
C14_TerminatesBeforeMain ==
    proc = "src/cpp/cert_cpp_violations.cpp" =>
        /\ phase \in {"static_init", "terminated", "killed"}
        /\ pc = 0
        /\ called = {}

\* C14 witness: the program has been run and has terminated in static
\* initialization.
C14_Witness_Terminated ==
    /\ proc = "src/cpp/cert_cpp_violations.cpp"
    /\ phase = "terminated"

\* C15: in cert_mem30_c, when malloc returns NULL the function returns at
\* once, having dereferenced and freed nothing; when malloc succeeds the
\* block is written, then freed, then read through p while it is freed.
C15_UseAfterFree ==
    (fpc = "mem30_ret" \/ (fpc = "mem30_read" /\ phase = "crashed")) =>
        IF ptr = "NULL"
        THEN log = <<>> /\ heap = "none"
        ELSE /\ Len(log) = 3
             /\ log[1].op = "write" /\ log[1].heap = "allocated"
             /\ log[2].op = "free"  /\ log[2].heap = "allocated"
             /\ log[3].op = "read"  /\ log[3].heap = "freed"
             /\ \A k \in 1..3 : log[k].ptr = "block"

\* C15 witness: cert_mem30_c is about to return after reading the freed block.
C15_Witness_ReadAfterFree ==
    /\ fpc = "mem30_ret"
    /\ ptr = "block"
    /\ heap = "freed"
    /\ Len(log) = 3

\* C19: the loop of misra_rule_15_6 terminates with i = 10 after exactly 5
\* executions of its body; at every loop test i is even and at most 10.
C19_LoopTerminates ==
    /\ fpc = "r15_6_test" => (i % 2 = 0 /\ i <= LoopBound /\ count * 2 = i)
    /\ fpc \in {"r15_6_body", "r15_6_incr"} => i < LoopBound
    /\ fpc = "r15_6_ret" => (i = LoopBound /\ count = 5)

\* C19 witness: the loop has exited.
C19_Witness_LoopExited ==
    /\ fpc = "r15_6_ret"
    /\ i = 10
    /\ count = 5

\* C16 (as stated): the final values of i and arr of cert_exp30_c depend on
\* the order of evaluation: the values the function ends with differ from
\* the values the other order would have given.
C16_ResultDependsOnOrder ==
    fpc = "exp30_ret" =>
        \A other \in EvalOrders \ {log[1].op} :
            <<i, arr>> # <<Exp30Assign(0, <<0, 0, 0, 0, 0>>, other).i,
                           Exp30Assign(0, <<0, 0, 0, 0, 0>>, other).arr>>

\* C16 (amended): the order of evaluation decides which element of arr is
\* written, arr[0] when the subscript is read first and arr[1] when the
\* increment comes first, but the value written is the old i = 0 into an
\* array of zeros: under both orders the function ends with i = 1 and arr
\* all zero.
C16_SameResultUnderBothOrders ==
    fpc = "exp30_ret" =>
        /\ i = 1
        /\ arr = <<0, 0, 0, 0, 0>>
        /\ log[1].op = "subscript_first" => log[1].i = 0
        /\ log[1].op = "increment_first" => log[1].i = 1

\* C16 witness: the assignment has been evaluated increment first, writing arr[1].
C16_Witness_IncrementFirst ==
    /\ fpc = "exp30_ret"
    /\ log[1].op = "increment_first"
    /\ log[1].i = 1

\* C18: cert_err33_c calls fclose on the result of fopen whatever it is; in
\* particular when fopen returned NULL, fclose is called with NULL.
C18_FcloseOnEveryPath ==
    (fpc = "err33_ret" \/ (fpc = "err33_fclose" /\ phase = "crashed")) =>
        /\ Len(log) = 1
        /\ log[1].op = "fclose"
        /\ log[1].ptr = ptr
        /\ ptr \in {"NULL", "FILE"}

\* C18 witness: fopen returned NULL and fclose has been called with it.
C18_Witness_FcloseNull ==
    /\ fpc = "err33_ret"
    /\ ptr = "NULL"
    /\ Len(log) = 1
    /\ log[1].op = "fclose"
    /\ log[1].ptr = "NULL"

\* C17 (as stated): once cert_sig30_c has installed bad_signal_handler it
\* stays installed until the process exits, so that every SIGINT delivered
\* from then on runs the handler and none terminates the process.
C17_HandlerStaysInstalled ==
    resethand # "none" =>
        /\ sigint_handler = "bad_signal_handler"
        /\ phase # "killed"
        /\ handler_runs = sigints

\* C17 (amended): bad_signal_handler runs only in the cert_c_violations.c
\* program and only after main has called cert_sig30_c; a SIGINT delivered
\* before signal() has been executed terminates the process without running
\* it; the first SIGINT delivered afterwards runs it. Whether it is still
\* installed after that is the implementation's choice: if the disposition
\* is not reset every later SIGINT runs it too, if it is reset the handler
\* has run exactly once and the next SIGINT terminates the process.
C17_HandlerRunsAfterInstall ==
    /\ handler_runs > 0 =>
          /\ proc = "src/c/cert_c_violations.c"
          /\ "cert_sig30_c" \in called
          /\ resethand # "none"
    /\ (resethand = "none" /\ sigints > 0) => (phase = "killed" /\ handler_runs = 0)
    /\ (resethand # "none" /\ sigints > 0) => handler_runs >= 1
    /\ resethand = "no" =>
          /\ handler_runs = sigints
          /\ sigint_handler = "bad_signal_handler"
          /\ phase # "killed"
    /\ resethand = "yes" =>
          /\ handler_runs = (IF sigints = 0 THEN 0 ELSE 1)
          /\ sigint_handler = (IF sigints = 0 THEN "bad_signal_handler" ELSE "SIG_DFL")
          /\ (phase = "killed") = (sigints >= 2)

\* C17 witness: a SIGINT delivered after cert_sig30_c, while main was at the
\* call of cert_int31_c, has run the handler.
C17_Witness_HandlerRanDuringInt31 ==
    /\ proc = "src/c/cert_c_violations.c"
    /\ phase = "main"
    /\ MainBody(proc)[pc] = "cert_int31_c"
    /\ sigints = 1
    /\ handler_runs = 1

====
